---- MODULE Spec2Model ----
(***************************************************************************)
(* Model of the robot-leg web controller: RobotCanvas (robot-canvas.js)    *)
(* and RobotController (controls script).  Angles are whole degrees,       *)
(* canvas coordinates are thousandths of a pixel, Math.sin / Math.cos are  *)
(* a three-digit table and Math.atan2 is rounded to the nearest degree.    *)
(* One action is one complete event handler (single-threaded dispatch).    *)
(***************************************************************************)
EXTENDS Integers, Sequences, FiniteSets, TLC

\* ------------------------------------------------------------------------
\* Program constants
\* ------------------------------------------------------------------------
centerX == 300
topY == 80
legSpacing == 250
legLength == 90
jointLength == 70
dragThreshold == 20
maxReconnectAttempts == 10

Sides == <<"left", "right">>
Keys == {"left_leg", "right_leg", "left_joint", "right_joint"}

KeyOf(side, part) ==
    IF side = "left"
    THEN (IF part = "leg" THEN "left_leg" ELSE "left_joint")
    ELSE (IF part = "leg" THEN "right_leg" ELSE "right_joint")

SideOfKey(k) == IF k \in {"left_leg", "left_joint"} THEN "left" ELSE "right"
PartOfKey(k) == IF k \in {"left_leg", "right_leg"} THEN "leg" ELSE "joint"

\* ------------------------------------------------------------------------
\* Arithmetic helpers: Math.max / Math.min, Math.sin / Math.cos / Math.atan2
\* ------------------------------------------------------------------------
Max(a, b) == IF a >= b THEN a ELSE b
Min(a, b) == IF a <= b THEN a ELSE b
Abs(a) == IF a >= 0 THEN a ELSE -a

\* 1000 * sin(d degrees), d = 0 .. 90, rounded
SinTab ==
    << 0, 17, 35, 52, 70, 87, 105, 122, 139, 156,
       174, 191, 208, 225, 242, 259, 276, 292, 309, 326,
       342, 358, 375, 391, 407, 423, 438, 454, 469, 485,
       500, 515, 530, 545, 559, 574, 588, 602, 616, 629,
       643, 656, 669, 682, 695, 707, 719, 731, 743, 755,
       766, 777, 788, 799, 809, 819, 829, 839, 848, 857,
       866, 875, 883, 891, 899, 906, 914, 921, 927, 934,
       940, 946, 951, 956, 961, 966, 970, 974, 978, 982,
       985, 988, 990, 993, 995, 996, 998, 999, 999, 1000, 1000 >>

Sin1000(a) ==
    LET m == a % 360 IN
    IF m <= 90 THEN SinTab[m + 1]
    ELSE IF m <= 180 THEN SinTab[(180 - m) + 1]
    ELSE IF m <= 270 THEN -SinTab[(m - 180) + 1]
    ELSE -SinTab[(360 - m) + 1]

Cos1000(a) == Sin1000(a + 90)

\* Math.atan2(dy, dx) * 180 / Math.PI, to the nearest whole degree, in
\* -179 .. 180; atan2(0, 0) is 0.  The quadrant of (dx, dy) gives the 90
\* degrees to search; the nearest degree is where the cross product of the
\* direction and (dx, dy) is smallest.
Atan2Deg(dy, dx) ==
    IF dx = 0 /\ dy = 0 THEN 0
    ELSE
      LET Cross(a) == dx * Sin1000(a) - dy * Cos1000(a)
          Dot(a) == dx * Cos1000(a) + dy * Sin1000(a)
          base == IF dx > 0 /\ dy >= 0 THEN 0
                  ELSE IF dx <= 0 /\ dy > 0 THEN 90
                  ELSE IF dx < 0 /\ dy <= 0 THEN -180
                  ELSE -90
          deg == CHOOSE a \in base .. (base + 90) :
                    /\ Dot(a) > 0
                    /\ Abs(Cross(a)) <= Dot(a)
                    /\ Abs(Cross(a)) <= Abs(Cross(a - 1))
                    /\ Abs(Cross(a)) <= Abs(Cross(a + 1))
      IN IF deg = -180 THEN 180 ELSE deg

\* ------------------------------------------------------------------------
\* RobotCanvas geometry and hit test
\* ------------------------------------------------------------------------
Pt(px, py) == [x |-> px, y |-> py]

\* (p1.x - p2.x) ** 2 + (p1.y - p2.y) ** 2; distance(p1, p2) is its root
Dist2(p1, p2) == (p1.x - p2.x) * (p1.x - p2.x) + (p1.y - p2.y) * (p1.y - p2.y)

\* variant of WithinThreshold: the handle's rim counts as inside (<=)
WithinThresholdInclusive(p1, p2) ==
    /\ Abs(p1.x - p2.x) <= dragThreshold * 1000
    /\ Abs(p1.y - p2.y) <= dragThreshold * 1000
    /\ Dist2(p1, p2) <= (dragThreshold * 1000) * (dragThreshold * 1000)

\* distance(p1, p2) < dragThreshold, in 1/1000 px with both sides squared;
\* a point a threshold or more away along one axis is not within it (this
\* keeps the squares within 32-bit integers)
WithinThreshold(p1, p2) ==
    /\ Abs(p1.x - p2.x) < dragThreshold * 1000
    /\ Abs(p1.y - p2.y) < dragThreshold * 1000
    /\ Dist2(p1, p2) < (dragThreshold * 1000) * (dragThreshold * 1000)

\* variant of getLegGeometry: the foot direction is the joint angle alone
getLegGeometryJointOnly(st, side) ==
    LET pivotX == IF side = "left"
                  THEN centerX - (legSpacing \div 2)
                  ELSE centerX + (legSpacing \div 2)
        pivotY == topY
        legAngle == st[KeyOf(side, "leg")]
        jointAngle == st[KeyOf(side, "joint")]
        kneeX == pivotX * 1000 + legLength * Cos1000(legAngle)
        kneeY == pivotY * 1000 + legLength * Sin1000(legAngle)
        footX == kneeX + jointLength * Cos1000(jointAngle)
        footY == kneeY + jointLength * Sin1000(jointAngle)
    IN [pivot |-> Pt(pivotX * 1000, pivotY * 1000),
        knee |-> Pt(kneeX, kneeY),
        foot |-> Pt(footX, footY)]

getLegGeometry(st, side) ==
    LET pivotX == IF side = "left"
                  THEN centerX - (legSpacing \div 2)
                  ELSE centerX + (legSpacing \div 2)
        pivotY == topY
        legAngle == st[KeyOf(side, "leg")]
        jointAngle == st[KeyOf(side, "leg")] + st[KeyOf(side, "joint")]
        kneeX == pivotX * 1000 + legLength * Cos1000(legAngle)
        kneeY == pivotY * 1000 + legLength * Sin1000(legAngle)
        footX == kneeX + jointLength * Cos1000(jointAngle)
        footY == kneeY + jointLength * Sin1000(jointAngle)
    IN [pivot |-> Pt(pivotX * 1000, pivotY * 1000),
        knee |-> Pt(kneeX, kneeY),
        foot |-> Pt(footX, footY)]

NoTarget == [side |-> "none", part |-> "none", center |-> Pt(0, 0)]
Target(side, part, center) == [side |-> side, part |-> part, center |-> center]

RECURSIVE checkHitFrom(_, _, _)
checkHitFrom(st, pos, i) ==
    IF i > Len(Sides) THEN NoTarget
    ELSE LET side == Sides[i]
             geom == getLegGeometry(st, side)
         IN IF WithinThreshold(pos, geom.pivot)
            THEN Target(side, "leg", geom.pivot)
            ELSE IF WithinThreshold(pos, geom.knee)
            THEN Target(side, "joint", geom.knee)
            ELSE checkHitFrom(st, pos, i + 1)

checkHit(st, pos) == checkHitFrom(st, pos, 1)


\* ------------------------------------------------------------------------
\* handleMove angle computation and the controller's drag callback
\* ------------------------------------------------------------------------
\* variant of ClampLeg: the lower limit is not applied
ClampLegUpperOnly(angle) == Min(105, angle)

\* Math.max(-15, Math.min(105, angle))
ClampLeg(angle) == Max(-15, Min(105, angle))

\* Math.max(0, Math.min(60, angle))
ClampJoint(angle) == Max(0, Min(60, angle))

\* variant of moveAngle: the joint is taken relative to the leg angle the
\* grabbed knee was computed from, not to the current one
moveAngleSnapshot(st, target, pos) ==
    LET dx == pos.x - target.center.x
        dy == pos.y - target.center.y
        pivot == getLegGeometry(st, target.side).pivot
    IN IF target.part = "leg"
       THEN ClampLeg(Atan2Deg(dy, dx))
       ELSE LET absoluteAngle == Atan2Deg(dy, dx)
                legAngle == Atan2Deg(target.center.y - pivot.y,
                                     target.center.x - pivot.x)
            IN ClampJoint(absoluteAngle - legAngle)

\* the angle handleMove stores for the drag target, given the pointer
moveAngle(st, target, pos) ==
    LET dx == pos.x - target.center.x
        dy == pos.y - target.center.y
    IN IF target.part = "leg"
       THEN ClampLeg(Atan2Deg(dy, dx))
       ELSE LET absoluteAngle == Atan2Deg(dy, dx)
                legAngle == st[KeyOf(target.side, "leg")]
            IN ClampJoint(absoluteAngle - legAngle)

Msg(name, side, angle) == [name |-> name, side |-> side, angle |-> angle]
\* variant of SetCmd: every command is named set_leg
SetCmdLegOnly(side, part, angle) == Msg("set_leg", side, angle)

SetCmd(side, part, angle) ==
    Msg(IF part = "leg" THEN "set_leg" ELSE "set_joint", side, angle)

\* variant of dragEmit: the connection is not consulted
dragEmitAlways(conn, side, part, angle) == <<SetCmd(side, part, angle)>>

\* what handleCanvasDrag passes to socket.emit
dragEmit(conn, side, part, angle) ==
    IF conn THEN <<SetCmd(side, part, angle)>> ELSE << >>

\* what a slider's input listener passes to socket.emit
sliderEmit(conn, side, part, angle) == <<SetCmd(side, part, angle)>>

\* getCurrentState(): a snapshot read from the four slider controls
getCurrentState(ctl) == [k \in Keys |-> ctl[k]]

\* variant of updateUI: only the two leg controls are refreshed
updateUILegsOnly(ctl, payload) ==
    [k \in Keys |-> IF PartOfKey(k) = "leg" THEN payload[k] ELSE ctl[k]]

\* updateUI(state): the four slider controls after the refresh
updateUI(ctl, payload) == [k \in Keys |-> payload[k]]

\* variant of render: the state is drawn but not kept
renderStateDrawOnly(old, new) == old

\* render(state): this.state = state
renderState(old, new) == new

\* angle.toFixed(1) of a whole number of degrees
toFixed1(angle) == ToString(angle) \o ".0"

\* `${angle.toFixed(1)}°`: the text written to a {side}-{part}-value element
displayText(angle) == toFixed1(angle) \o "°"

\* updateUI(state): the four value elements after the refresh
updateDisplays(disp, payload) == [k \in Keys |-> displayText(payload[k])]

\* variant of render: the handles are drawn on every pass
drawsHandlesAlways(dragging) == TRUE

\* render: if (!this.isDragging) this.drawHandles()
drawsHandles(dragging) == ~dragging

\* one render pass: the state it was given and whether it drew the rings
Frame(st, dragging) == [state |-> st, rings |-> drawsHandles(dragging)]

\* ------------------------------------------------------------------------
\* Inputs of the environment
\* ------------------------------------------------------------------------
MaxStart == 4
MaxMove == 4
MaxPayload == 2

\* pointer positions in canvas coordinates (1/1000 px), as getMousePos
\* returns them: where a gesture starts
StartTab ==
    << Pt(175000, 80000),    \* left pivot
       Pt(425000, 80000),    \* right pivot
       Pt(238630, 143630),   \* left knee at leg angle 45
       Pt(190660, 168650),   \* left knee at leg angle 80
       Pt(175000, 60000),    \* exactly dragThreshold above the left pivot
       Pt(488630, 143630) >> \* right knee at leg angle 45

\* where the pointer moves to
MoveTab ==
    << Pt(192400, 178500),   \* 80 degrees from the left pivot
       Pt(277210, 189590),   \* 50 degrees from the left knee at leg 45
       Pt(175000, 60000),    \* -90 degrees from the left pivot
       Pt(180220, 227750),   \* 100 degrees from the left knee at leg 80
       Pt(425000, 180000) >> \* 90 degrees from the right pivot

StartPositions == {StartTab[i] : i \in 1 .. Min(MaxStart, Len(StartTab))}
MovePositions == {MoveTab[i] : i \in 1 .. Min(MaxMove, Len(MoveTab))}

State4(ll, rl, lj, rj) ==
    [left_leg |-> ll, right_leg |-> rl, left_joint |-> lj, right_joint |-> rj]

\* state_update payloads the server may push
PayloadTab ==
    << State4(30, 45, 0, 0),
       State4(120, -30, 75, -10),
       State4(10, 20, 5, 15) >>

PayloadIds == 1 .. Min(MaxPayload, Len(PayloadTab))

\* values a slider control may report in an input event
SliderInputs(k) == IF PartOfKey(k) = "leg" THEN {80} ELSE {20}

\* the slider controls' values when the page has loaded
InitSliders == {State4(45, 45, 0, 0), State4(0, 0, 0, 0)}

\* the value elements' text when the page has loaded
InitDisplays == [k \in Keys |-> "--"]

\* ------------------------------------------------------------------------
\* State
\* ------------------------------------------------------------------------
VARIABLES
    state,              \* RobotCanvas.state: key -> angle
    isDragging,         \* RobotCanvas.isDragging
    dragTarget,         \* RobotCanvas.dragTarget (NoTarget is null)
    sliders,            \* value of the four {side}-{part}-slider controls
    displays,           \* text of the four {side}-{part}-value elements
    rendered,           \* render passes of the last handler, in order
    connected,          \* socket.connected
    connectionStatus,   \* text of the connection-status element
    reconnectAttempts,  \* RobotController.reconnectAttempts
    transport,          \* socket.io manager: opening, open, reconnecting, closed
    backoffAttempts,    \* socket.io manager: reconnection attempts made
    toast,              \* the toast element is visible
    emitted,            \* socket.emit calls of the last handler, in order
    lastEvent           \* the event the last handler ran for

vars == <<state, isDragging, dragTarget, sliders, displays, rendered, connected,
          connectionStatus, reconnectAttempts, transport, backoffAttempts, toast,
          emitted, lastEvent>>

canvasVars == <<state, isDragging, dragTarget>>
socketVars == <<connected, connectionStatus, reconnectAttempts, transport,
                backoffAttempts>>

\* type: the handler; key: the field a move or a slider input wrote; pos: the
\* pointer position a move used; n: the value written or the payload pushed
Event(type, key, pos, n) == [type |-> type, key |-> key, pos |-> pos, n |-> n]

Init ==
    /\ state = State4(45, 45, 0, 0)
    /\ isDragging = FALSE
    /\ dragTarget = NoTarget
    /\ sliders \in InitSliders
    /\ displays = InitDisplays
    /\ rendered = <<Frame(State4(45, 45, 0, 0), FALSE)>>
    /\ connected = FALSE
    /\ connectionStatus = "initial"
    /\ reconnectAttempts = 0
    /\ transport = "opening"
    /\ backoffAttempts = 0
    /\ toast = FALSE
    /\ emitted = << >>
    /\ lastEvent = Event("init", "none", Pt(0, 0), 0)

\* variant of handleStart: the gesture starts whether or not a handle is hit
handleStartAlways(pos) ==
    \E hit \in {checkHit(state, pos)} :
    /\ isDragging' = TRUE
    /\ dragTarget' = hit
    /\ emitted' = << >>
    /\ lastEvent' = Event("start", "none", Pt(0, 0), 0)
    /\ rendered' = << >>
    /\ UNCHANGED <<state, sliders, displays, socketVars, toast>>

\* ------------------------------------------------------------------------
\* RobotCanvas handlers
\* ------------------------------------------------------------------------
\* mousedown / touchstart on the canvas
handleStart(pos) ==
    \E hit \in {checkHit(state, pos)} :
    /\ IF hit # NoTarget
       THEN /\ isDragging' = TRUE
            /\ dragTarget' = hit
       ELSE UNCHANGED <<isDragging, dragTarget>>
    /\ emitted' = << >>
    /\ lastEvent' = Event("start", "none", Pt(0, 0), 0)
    /\ rendered' = << >>
    /\ UNCHANGED <<state, sliders, displays, socketVars, toast>>

\* variant of handleMove: a move outside a gesture redraws the canvas
handleMoveRedraws(pos) ==
    /\ IF ~isDragging \/ dragTarget = NoTarget
       THEN /\ emitted' = << >>
            /\ rendered' = <<Frame(state, isDragging)>>
            /\ lastEvent' = Event("move", "none", Pt(0, 0), 0)
            /\ UNCHANGED <<state, sliders, displays>>
       ELSE \E angle \in {moveAngle(state, dragTarget, pos)} :
               LET side == dragTarget.side
                   part == dragTarget.part
                   moved == [state EXCEPT ![KeyOf(side, part)] = angle]
               IN /\ sliders' = [sliders EXCEPT ![KeyOf(side, part)] = angle]
                  /\ displays' = [displays EXCEPT
                                     ![KeyOf(side, part)] = displayText(angle)]
                  /\ emitted' = dragEmit(connected, side, part, angle)
                  /\ state' = renderState(state, moved)
                  /\ rendered' = <<Frame(moved, isDragging)>>
                  /\ lastEvent' = Event("move", KeyOf(side, part), pos, angle)
    /\ UNCHANGED <<isDragging, dragTarget, socketVars, toast>>

\* mousemove / touchmove on the window
handleMove(pos) ==
    /\ IF ~isDragging \/ dragTarget = NoTarget
       THEN /\ emitted' = << >>
            /\ rendered' = << >>
            /\ lastEvent' = Event("move", "none", Pt(0, 0), 0)
            /\ UNCHANGED <<state, sliders, displays>>
       ELSE \E angle \in {moveAngle(state, dragTarget, pos)} :
               LET side == dragTarget.side
                   part == dragTarget.part
                   moved == [state EXCEPT ![KeyOf(side, part)] = angle]
               IN /\ sliders' = [sliders EXCEPT ![KeyOf(side, part)] = angle]
                  /\ displays' = [displays EXCEPT
                                     ![KeyOf(side, part)] = displayText(angle)]
                  /\ emitted' = dragEmit(connected, side, part, angle)
                  /\ state' = renderState(state, moved)
                  /\ rendered' = <<Frame(moved, isDragging)>>
                  /\ lastEvent' = Event("move", KeyOf(side, part), pos, angle)
    /\ UNCHANGED <<isDragging, dragTarget, socketVars, toast>>

\* variant of handleEnd: the end of a gesture asks the server for its state
handleEndRequestsStatus ==
    /\ isDragging' = FALSE
    /\ dragTarget' = NoTarget
    /\ emitted' = <<Msg("get_status", "none", 0)>>
    /\ lastEvent' = Event("end", "none", Pt(0, 0), 0)
    /\ rendered' = << >>
    /\ UNCHANGED <<state, sliders, displays, socketVars, toast>>

\* mouseup / touchend on the window
handleEnd ==
    /\ isDragging' = FALSE
    /\ dragTarget' = NoTarget
    /\ emitted' = << >>
    /\ lastEvent' = Event("end", "none", Pt(0, 0), 0)
    /\ rendered' = << >>
    /\ UNCHANGED <<state, sliders, displays, socketVars, toast>>

\* ------------------------------------------------------------------------
\* RobotController handlers
\* ------------------------------------------------------------------------
\* input event of the {side}-{part}-slider control reporting value v
sliderInput(k, v) ==
    LET ctl == [sliders EXCEPT ![k] = v]
        snap == [getCurrentState(ctl) EXCEPT ![k] = v]
    IN /\ sliders' = ctl
       /\ displays' = [displays EXCEPT ![k] = displayText(v)]
       /\ state' = renderState(state, snap)
       /\ rendered' = <<Frame(snap, isDragging)>>
       /\ emitted' = sliderEmit(connected, SideOfKey(k), PartOfKey(k), v)
       /\ lastEvent' = Event("slider", k, Pt(0, 0), v)
       /\ UNCHANGED <<isDragging, dragTarget, socketVars, toast>>

\* click / touchend on the send button
sendNow ==
    /\ emitted' = <<Msg("send_now", "none", 0)>>
    /\ toast' = TRUE
    /\ lastEvent' = Event("send", "none", Pt(0, 0), 0)
    /\ rendered' = << >>
    /\ UNCHANGED <<canvasVars, sliders, displays, socketVars>>

\* the timer showToast started fires
toastTimeout ==
    /\ toast
    /\ toast' = FALSE
    /\ emitted' = << >>
    /\ lastEvent' = Event("toast_timeout", "none", Pt(0, 0), 0)
    /\ rendered' = << >>
    /\ UNCHANGED <<canvasVars, sliders, displays, socketVars>>

\* variant of onConnect: the status request is not sent
onConnectSilent ==
    /\ transport \in {"opening", "reconnecting"}
    /\ transport' = "open"
    /\ backoffAttempts' = 0
    /\ connected' = TRUE
    /\ connectionStatus' = "Connected"
    /\ reconnectAttempts' = 0
    /\ emitted' = << >>
    /\ lastEvent' = Event("connect", "none", Pt(0, 0), 0)
    /\ rendered' = << >>
    /\ UNCHANGED <<canvasVars, sliders, displays, toast>>

\* socket 'connect': an initial or a reconnection attempt succeeded
onConnect ==
    /\ transport \in {"opening", "reconnecting"}
    /\ transport' = "open"
    /\ backoffAttempts' = 0
    /\ connected' = TRUE
    /\ connectionStatus' = "Connected"
    /\ reconnectAttempts' = 0
    /\ emitted' = <<Msg("get_status", "none", 0)>>
    /\ lastEvent' = Event("connect", "none", Pt(0, 0), 0)
    /\ rendered' = << >>
    /\ UNCHANGED <<canvasVars, sliders, displays, toast>>

\* socket 'disconnect': the open connection is lost; the manager schedules
\* the first reconnection attempt
onDisconnect ==
    /\ transport = "open"
    /\ transport' = "reconnecting"
    /\ backoffAttempts' = 1
    /\ connected' = FALSE
    /\ connectionStatus' = "Disconnected"
    /\ emitted' = << >>
    /\ lastEvent' = Event("disconnect", "none", Pt(0, 0), 0)
    /\ rendered' = << >>
    /\ UNCHANGED <<canvasVars, sliders, displays, reconnectAttempts, toast>>

\* the manager's step after a failed attempt: give up once
\* reconnectionAttempts reconnections were made, else schedule the next
nextTransport(tr, attempts) ==
    IF tr = "reconnecting" /\ attempts >= maxReconnectAttempts
    THEN [transport |-> "closed", backoffAttempts |-> 0]
    ELSE [transport |-> "reconnecting", backoffAttempts |-> attempts + 1]

\* variant of onConnectError: the failure is not counted
onConnectErrorUncounted ==
    /\ transport \in {"opening", "reconnecting"}
    /\ reconnectAttempts' = reconnectAttempts
    /\ transport' = nextTransport(transport, backoffAttempts).transport
    /\ backoffAttempts' = nextTransport(transport, backoffAttempts).backoffAttempts
    /\ emitted' = << >>
    /\ lastEvent' = Event("connect_error", "none", Pt(0, 0), 0)
    /\ rendered' = << >>
    /\ UNCHANGED <<canvasVars, sliders, displays, connected, connectionStatus, toast>>

\* socket 'connect_error': the initial or a reconnection attempt failed
onConnectError ==
    /\ transport \in {"opening", "reconnecting"}
    /\ reconnectAttempts' = reconnectAttempts + 1
    /\ transport' = nextTransport(transport, backoffAttempts).transport
    /\ backoffAttempts' = nextTransport(transport, backoffAttempts).backoffAttempts
    /\ emitted' = << >>
    /\ lastEvent' = Event("connect_error", "none", Pt(0, 0), 0)
    /\ rendered' = << >>
    /\ UNCHANGED <<canvasVars, sliders, displays, connected, connectionStatus, toast>>

\* variant of onStateUpdate: a push that arrives during a drag refreshes
\* the controls but is not rendered
onStateUpdateGuarded(i) ==
    /\ connected
    /\ sliders' = updateUI(sliders, PayloadTab[i])
    /\ displays' = updateDisplays(displays, PayloadTab[i])
    /\ state' = IF isDragging THEN state ELSE renderState(state, PayloadTab[i])
    /\ rendered' = IF isDragging THEN << >> ELSE <<Frame(PayloadTab[i], isDragging)>>
    /\ emitted' = << >>
    /\ lastEvent' = Event("state_update", "none", Pt(0, 0), i)
    /\ UNCHANGED <<isDragging, dragTarget, socketVars, toast>>

\* socket 'state_update' carrying payload PayloadTab[i]
onStateUpdate(i) ==
    /\ connected
    /\ sliders' = updateUI(sliders, PayloadTab[i])
    /\ displays' = updateDisplays(displays, PayloadTab[i])
    /\ state' = renderState(state, PayloadTab[i])
    /\ rendered' = <<Frame(PayloadTab[i], isDragging)>>
    /\ emitted' = << >>
    /\ lastEvent' = Event("state_update", "none", Pt(0, 0), i)
    /\ UNCHANGED <<isDragging, dragTarget, socketVars, toast>>

\* variant of onError: a server error is shown as a lost connection
onErrorFatal ==
    /\ connected
    /\ toast' = TRUE
    /\ connectionStatus' = "Disconnected"
    /\ emitted' = << >>
    /\ lastEvent' = Event("error", "none", Pt(0, 0), 0)
    /\ rendered' = << >>
    /\ UNCHANGED <<canvasVars, sliders, displays, connected, reconnectAttempts,
                   transport, backoffAttempts>>

\* socket 'error' carrying a message
onError ==
    /\ connected
    /\ toast' = TRUE
    /\ emitted' = << >>
    /\ lastEvent' = Event("error", "none", Pt(0, 0), 0)
    /\ rendered' = << >>
    /\ UNCHANGED <<canvasVars, sliders, displays, socketVars>>

Next ==
    \/ \E pos \in StartPositions : handleStart(pos)
    \/ \E pos \in MovePositions : handleMove(pos)
    \/ handleEnd
    \/ \E k \in Keys : \E v \in SliderInputs(k) : sliderInput(k, v)
    \/ sendNow
    \/ toastTimeout
    \/ onConnect
    \/ onDisconnect
    \/ onConnectError
    \/ \E i \in PayloadIds : onStateUpdate(i)
    \/ onError

\* the complete system
Spec == Init /\ [][Next]_vars

\* the canvas and its inputs, with a server that is reachable: the socket
\* connects, disconnects and reconnects, and pushes state
NextCanvas ==
    \/ \E pos \in StartPositions : handleStart(pos)
    \/ \E pos \in MovePositions : handleMove(pos)
    \/ handleEnd
    \/ \E k \in Keys : \E v \in SliderInputs(k) : sliderInput(k, v)
    \/ onConnect
    \/ onDisconnect
    \/ \E i \in PayloadIds : onStateUpdate(i)

SpecCanvas == Init /\ [][NextCanvas]_vars

\* every socket and button handler, with gestures that start on the left
\* pivot or where the left knee is at leg angle 45, one move, one slider and
\* one payload as the local input
NextSocket ==
    \/ \E pos \in {StartTab[1], StartTab[3]} : handleStart(pos)
    \/ handleMove(MoveTab[1])
    \/ handleEnd
    \/ sliderInput("right_joint", 20)
    \/ sendNow
    \/ toastTimeout
    \/ onConnect
    \/ onDisconnect
    \/ onConnectError
    \/ onStateUpdate(1)
    \/ onError

SpecSocket == Init /\ [][NextSocket]_vars

\* ------------------------------------------------------------------------
\* Type invariant
\* ------------------------------------------------------------------------
TypeOK ==
    /\ DOMAIN state = Keys
    /\ isDragging \in BOOLEAN
    /\ connected \in BOOLEAN
    /\ transport \in {"opening", "open", "reconnecting", "closed"}
    /\ toast \in BOOLEAN


\* ------------------------------------------------------------------------
\* Properties
\* ------------------------------------------------------------------------
\* the last handler was a pointerMove processed while dragging
MoveProcessed == lastEvent.type = "move" /\ lastEvent.key # "none"

\* the raw angle of the last move: from the drag target's center to the
\* pointer, in degrees
RawMoveAngle ==
    Atan2Deg(lastEvent.pos.y - dragTarget.center.y,
             lastEvent.pos.x - dragTarget.center.x)

\* every position of the input tables, as a probe of the hit test
HitProbes ==
    {StartTab[i] : i \in 1 .. Len(StartTab)} \cup {MoveTab[i] : i \in 1 .. Len(MoveTab)}

\* C1: in every reachable state each leg angle of RobotState lies in
\* [-15, 105] and each joint angle in [0, 60], whatever the drag moves,
\* slider inputs and state_update messages were.
C1_AnglesInRange ==
    \A side \in {"left", "right"} :
        /\ state[KeyOf(side, "leg")] >= -15
        /\ state[KeyOf(side, "leg")] <= 105
        /\ state[KeyOf(side, "joint")] >= 0
        /\ state[KeyOf(side, "joint")] <= 60

\* C2: a pointerDown that arrives while a drag is in progress leaves the
\* active DragTarget (side, part, reference center) as it was.
C2_StartWhileDraggingIgnored ==
    [][(isDragging /\ lastEvent'.type = "start") => dragTarget' = dragTarget]_vars

\* C3 as stated: every pointerMove processed while dragging and every slider
\* input emits exactly one set_leg / set_joint carrying the side and the
\* committed angle, whatever the connection state; no other event emits one.
C3_OneCommandPerChange ==
    LET k == lastEvent.key
        cmd == [name |-> IF PartOfKey(k) = "leg" THEN "set_leg" ELSE "set_joint",
                side |-> SideOfKey(k), angle |-> state[k]]
    IN IF MoveProcessed \/ lastEvent.type = "slider"
       THEN emitted = <<cmd>>
       ELSE \A i \in 1 .. Len(emitted) : emitted[i].name \notin {"set_leg", "set_joint"}

\* C3 amended: a pointerMove processed while dragging emits exactly one
\* set_leg / set_joint carrying the side and the committed angle when the
\* socket is connected and none when it is not; a slider input emits exactly
\* one whatever the connection state; no other event emits one.
C3_OneCommandWhenConnected ==
    LET k == lastEvent.key
        cmd == [name |-> IF PartOfKey(k) = "leg" THEN "set_leg" ELSE "set_joint",
                side |-> SideOfKey(k), angle |-> state[k]]
    IN IF MoveProcessed
       THEN emitted = (IF connected THEN <<cmd>> ELSE << >>)
       ELSE IF lastEvent.type = "slider"
       THEN emitted = <<cmd>>
       ELSE \A i \in 1 .. Len(emitted) : emitted[i].name \notin {"set_leg", "set_joint"}

\* a drag move was processed while the socket was disconnected: the angle
\* was committed and nothing was emitted
C3_Witness ==
    /\ MoveProcessed
    /\ ~connected
    /\ state[lastEvent.key] = lastEvent.n
    /\ emitted = << >>

\* C4: a state_update replaces all four RobotState fields by the payload's
\* values, idle or dragging, and leaves the drag status and the DragTarget
\* unchanged; the next pointerMove of the gesture changes only the dragged
\* field of the state just received.
C4_StateUpdateOverwrites ==
    [][/\ lastEvent'.type = "state_update" =>
            /\ \A k \in Keys : state'[k] = PayloadTab[lastEvent'.n][k]
            /\ isDragging' = isDragging
            /\ dragTarget' = dragTarget
       /\ (lastEvent.type = "state_update" /\ lastEvent'.type = "move"
                /\ lastEvent'.key # "none") =>
            \A k \in Keys \ {lastEvent'.key} : state'[k] = PayloadTab[lastEvent.n][k]
      ]_vars

\* a state_update arrived during a leg drag and replaced a state that
\* differed from the payload in the dragged field
C4_Witness ==
    /\ isDragging
    /\ dragTarget.part = "leg"
    /\ lastEvent.type = "state_update"
    /\ state = PayloadTab[lastEvent.n]
    /\ sliders = PayloadTab[lastEvent.n]

\* C5: a pointerMove processed while dragging a leg handle stores a leg
\* angle in [-15, 105]: the raw angle when it is in that range, -15 when it
\* is below, 105 when it is above; while dragging a joint handle it stores a
\* joint angle in [0, 60]: 0 when the relative angle is below 0, 60 when it
\* is above 60.
C5_ClampTotality ==
    MoveProcessed =>
        LET stored == state[KeyOf(dragTarget.side, dragTarget.part)]
            raw == RawMoveAngle
            rel == raw - state[KeyOf(dragTarget.side, "leg")]
        IN IF dragTarget.part = "leg"
           THEN /\ stored >= -15 /\ stored <= 105
                /\ (raw >= -15 /\ raw <= 105) => stored = raw
                /\ raw < -15 => stored = -15
                /\ raw > 105 => stored = 105
           ELSE /\ stored >= 0 /\ stored <= 60
                /\ rel < 0 => stored = 0
                /\ rel > 60 => stored = 60

\* a leg drag moved the pointer to a raw angle below -15 and -15 was stored
C5_Witness ==
    /\ MoveProcessed
    /\ dragTarget.part = "leg"
    /\ RawMoveAngle < -15
    /\ state[KeyOf(dragTarget.side, "leg")] = -15

\* C6: on every pointerMove of a joint drag the stored joint angle is
\* clamp(absoluteAngle - L, 0, 60), L being the same side's leg angle in
\* RobotState at that move, not the one the grabbed knee was computed from.
C6_JointRelativeToLiveLeg ==
    (MoveProcessed /\ dragTarget.part = "joint") =>
        LET L == state[KeyOf(dragTarget.side, "leg")]
            rel == RawMoveAngle - L
        IN state[KeyOf(dragTarget.side, "joint")] =
              (IF rel < 0 THEN 0 ELSE IF rel > 60 THEN 60 ELSE rel)

\* the left knee was grabbed at one leg angle, the leg angle then became 30,
\* and a move to the absolute angle 50 stored the joint angle 20
C6_Witness ==
    /\ MoveProcessed
    /\ dragTarget.part = "joint"
    /\ dragTarget.side = "left"
    /\ dragTarget.center # getLegGeometry(state, "left").knee
    /\ state["left_leg"] = 30
    /\ RawMoveAngle = 50
    /\ state["left_joint"] = 20

\* C7: in every reachable state the reconnect-attempt counter is at most
\* the configured maximum, 10.
C7_CounterAtMostMax == reconnectAttempts <= maxReconnectAttempts

\* C8: a connect event emits exactly one get_status, in the handler that
\* marks the connection connected; no other event emits get_status.
C8_StatusOncePerConnect ==
    IF lastEvent.type = "connect"
    THEN /\ emitted = <<[name |-> "get_status", side |-> "none", angle |-> 0]>>
         /\ connected
         /\ connectionStatus = "Connected"
    ELSE \A i \in 1 .. Len(emitted) : emitted[i].name # "get_status"

\* the socket connected after local input had changed the state: the
\* handler emitted get_status
C8_Witness ==
    /\ lastEvent.type = "connect"
    /\ Len(emitted) = 1
    /\ emitted[1].name = "get_status"
    /\ connected
    /\ state # State4(45, 45, 0, 0)

\* C9: an inbound error message changes neither RobotState, the drag state,
\* the connection status nor the reconnect counter, and emits no command;
\* it only shows the notification.
C9_ErrorChangesNothing ==
    [][lastEvent'.type = "error" =>
            /\ UNCHANGED <<state, sliders, isDragging, dragTarget>>
            /\ UNCHANGED <<connected, connectionStatus, reconnectAttempts,
                           transport, backoffAttempts>>
            /\ emitted' = << >>
            /\ toast' = TRUE
      ]_vars

\* an error message arrived during a drag that had changed the state
C9_Witness ==
    /\ lastEvent.type = "error"
    /\ toast
    /\ isDragging
    /\ connected
    /\ connectionStatus = "Connected"
    /\ state # State4(45, 45, 0, 0)

\* C10: checkHit returns the first handle whose point is less than the
\* threshold (20 px) from the pointer, in the order left-leg (left pivot),
\* left-joint (left knee), right-leg, right-joint, with that point, computed
\* from the current RobotState, as the center; it returns none when no handle
\* is within the threshold.
C10_HitTestPriority ==
    \A pos \in HitProbes :
        LET gl == getLegGeometry(state, "left")
            gr == getLegGeometry(state, "right")
            handles == << [side |-> "left", part |-> "leg", center |-> gl.pivot],
                          [side |-> "left", part |-> "joint", center |-> gl.knee],
                          [side |-> "right", part |-> "leg", center |-> gr.pivot],
                          [side |-> "right", part |-> "joint", center |-> gr.knee] >>
            Near(c) == /\ Abs(pos.x - c.x) < 20000
                       /\ Abs(pos.y - c.y) < 20000
                       /\ (pos.x - c.x) * (pos.x - c.x)
                            + (pos.y - c.y) * (pos.y - c.y) < 20000 * 20000
            hits == {i \in 1 .. 4 : Near(handles[i].center)}
        IN IF hits = {}
           THEN checkHit(state, pos) = NoTarget
           ELSE checkHit(state, pos) =
                    handles[CHOOSE i \in hits : \A j \in hits : i <= j]

\* a gesture started on the left knee after the leg angle had become 80: the
\* target is the left joint and its center the knee of the current state
C10_Witness ==
    /\ lastEvent.type = "start"
    /\ isDragging
    /\ dragTarget.side = "left"
    /\ dragTarget.part = "joint"
    /\ state["left_leg"] = 80
    /\ dragTarget.center = getLegGeometry(state, "left").knee
    /\ dragTarget.center = StartTab[4]

\* ------------------------------------------------------------------------
\* C11
\* ------------------------------------------------------------------------
\* the handler being taken is a pointerMove at pos, processed for the drag
\* target (side, part)
MoveStep(side, part, pos) ==
    /\ lastEvent'.type = "move"
    /\ lastEvent'.key = KeyOf(side, part)
    /\ lastEvent'.pos = pos
    /\ dragTarget.side = side
    /\ dragTarget.part = part

\* the first gesture of the scenario: the left pivot dragged to 80 degrees
ScenarioLegStep == MoveStep("left", "leg", MoveTab[1])

\* the second gesture of the scenario: the left knee, grabbed where it is at
\* leg angle 80, dragged to an absolute 100 degrees while the leg is at 80
ScenarioJointStep ==
    /\ MoveStep("left", "joint", MoveTab[4])
    /\ dragTarget.center = StartTab[4]
    /\ state["left_leg"] = 80

\* the right leg and right joint keep their values across the step
RightUnchanged ==
    /\ state'["right_leg"] = state["right_leg"]
    /\ state'["right_joint"] = state["right_joint"]

\* C11 as stated: the left pivot dragged to an absolute 80 gives left_leg = 80
\* and an outbound set_leg {left, 80}; the left knee, located from leg angle
\* 80, dragged to an absolute 100 gives left_joint = 20 and an outbound
\* set_joint {left, 20}; right_leg and right_joint are unchanged throughout.
C11_ScenarioEmits ==
    [][ /\ ScenarioLegStep =>
            /\ state'["left_leg"] = 80
            /\ emitted' = <<Msg("set_leg", "left", 80)>>
            /\ RightUnchanged
        /\ ScenarioJointStep =>
            /\ state'["left_joint"] = 20
            /\ state'["left_leg"] = 80
            /\ emitted' = <<Msg("set_joint", "left", 20)>>
            /\ RightUnchanged ]_vars

\* C11 amended: the left pivot dragged to an absolute 80 gives left_leg = 80,
\* and the left knee, located from leg angle 80, dragged to an absolute 100
\* gives left_joint = 20, with right_leg and right_joint unchanged throughout;
\* each of the two moves emits its set_leg {left, 80} / set_joint {left, 20}
\* when the socket is connected and emits nothing when it is not.
C11_ScenarioEmitsWhenConnected ==
    [][ /\ ScenarioLegStep =>
            /\ state'["left_leg"] = 80
            /\ emitted' = (IF connected THEN <<Msg("set_leg", "left", 80)>>
                                        ELSE << >>)
            /\ RightUnchanged
        /\ ScenarioJointStep =>
            /\ state'["left_joint"] = 20
            /\ state'["left_leg"] = 80
            /\ emitted' = (IF connected THEN <<Msg("set_joint", "left", 20)>>
                                        ELSE << >>)
            /\ RightUnchanged ]_vars

\* the scenario has run from the default state on a connected socket: the
\* knee grabbed at leg angle 80 was just dragged to an absolute 100
C11_Witness ==
    /\ lastEvent = Event("move", "left_joint", MoveTab[4], 20)
    /\ dragTarget = Target("left", "joint", StartTab[4])
    /\ state = State4(80, 45, 20, 0)
    /\ connected
    /\ emitted = <<Msg("set_joint", "left", 20)>>
    /\ sliders = state

\* ------------------------------------------------------------------------
\* C12
\* ------------------------------------------------------------------------
\* C12: whenever a handler changes a RobotState field, then when the handler
\* completes the slider control of that field holds the field's new value;
\* and when the handler is a drag move or a state_update, or the input of
\* that field's own slider, the value element of the field shows the new
\* value to one decimal place followed by a degree symbol.
C12_ControlBinding ==
    [][ \A k \in Keys :
          state'[k] # state[k] =>
            /\ sliders'[k] = state'[k]
            /\ (lastEvent'.type \in {"move", "state_update"} \/ lastEvent'.key = k)
                 => displays'[k] = ToString(state'[k]) \o ".0°" ]_vars

\* a state_update has replaced all four fields: every control holds the new
\* value and every value element shows it, a negative one included
C12_Witness ==
    /\ lastEvent.type = "state_update"
    /\ state = State4(120, -30, 75, -10)
    /\ sliders = state
    /\ displays = [left_leg |-> "120.0°", right_leg |-> "-30.0°",
                   left_joint |-> "75.0°", right_joint |-> "-10.0°"]

\* ------------------------------------------------------------------------
\* C13
\* ------------------------------------------------------------------------
\* the handler being taken is a pointerMove outside a gesture
IdleMoveStep == lastEvent'.type = "move" /\ lastEvent'.key = "none"

\* C13: of the pointer handlers only a pointerMove processed while dragging
\* changes RobotState: a pointerDown (hit or not), a pointerUp and a
\* pointerMove while idle leave the four fields as they were, and the
\* pointerMove while idle emits no command and redraws nothing; a processed
\* move changes no field but the dragged one.
C13_OnlyDragMoveMutates ==
    [][ /\ (lastEvent'.type \in {"start", "end"} \/ IdleMoveStep) => state' = state
        /\ IdleMoveStep => emitted' = << >> /\ rendered' = << >>
        /\ (lastEvent'.type = "move" /\ ~IdleMoveStep) =>
              \A k \in Keys \ {lastEvent'.key} : state'[k] = state[k] ]_vars

\* a pointerMove arrived outside a gesture on a connected socket, after a
\* gesture had changed the state: nothing was sent and nothing redrawn
C13_Witness ==
    /\ lastEvent = Event("move", "none", Pt(0, 0), 0)
    /\ ~isDragging
    /\ connected
    /\ state["left_leg"] = 80
    /\ emitted = << >>
    /\ rendered = << >>

\* ------------------------------------------------------------------------
\* C14
\* ------------------------------------------------------------------------
\* C14: the end of a gesture, in whatever state it arrives, leaves the canvas
\* idle with no drag target and emits nothing; RobotState and the controls
\* keep what the gesture committed.
C14_EndGoesIdleSilently ==
    [][ lastEvent'.type = "end" =>
          /\ ~isDragging'
          /\ dragTarget' = NoTarget
          /\ emitted' = << >>
          /\ state' = state
          /\ sliders' = sliders ]_vars

\* a gesture that dragged the left leg to 80 on a connected socket has ended
C14_Witness ==
    /\ lastEvent.type = "end"
    /\ ~isDragging
    /\ dragTarget = NoTarget
    /\ connected
    /\ state["left_leg"] = 80
    /\ sliders["left_leg"] = 80
    /\ emitted = << >>

\* ------------------------------------------------------------------------
\* C15
\* ------------------------------------------------------------------------
\* C15: for either side the pivot is the side's fixed screen position,
\* whatever RobotState holds; with leg angle 0 and joint angle 0 the knee is
\* pivot + (legLength, 0) and the foot is knee + (jointLength, 0); and the
\* foot lies jointLength from the knee in the direction leg angle + joint
\* angle.
C15_ForwardKinematics ==
    \A i \in 1 .. Len(Sides) :
        LET side == Sides[i]
            leg == state[KeyOf(side, "leg")]
            joint == state[KeyOf(side, "joint")]
            g == getLegGeometry(state, side)
        IN /\ g.pivot = Pt((IF side = "left" THEN 175 ELSE 425) * 1000, 80 * 1000)
           /\ (leg = 0 /\ joint = 0) =>
                 /\ g.knee = Pt(g.pivot.x + legLength * 1000, g.pivot.y)
                 /\ g.foot = Pt(g.knee.x + jointLength * 1000, g.knee.y)
           /\ g.foot.x - g.knee.x = jointLength * Cos1000(leg + joint)
           /\ g.foot.y - g.knee.y = jointLength * Sin1000(leg + joint)

\* the canvas has drawn a state whose left leg and left joint are both 0
\* while the right joint is not
C15_Witness ==
    /\ state = State4(0, 0, 0, 20)
    /\ Len(rendered) = 1
    /\ rendered[1].state = state
    /\ getLegGeometry(state, "left").foot = Pt(335000, 80000)

\* ------------------------------------------------------------------------
\* C16
\* ------------------------------------------------------------------------
\* C16: in every reachable state isDragging is true exactly when a drag
\* target is present; dragging is entered only by a pointerDown whose hit
\* test succeeds, with the handle hit as the target; it is left only by a
\* gesture end; and no handler other than pointerDown and gesture end
\* (state_update, slider input, error, connect, disconnect, connect_error,
\* pointerMove, button, timer) changes isDragging or the target.
C16_DragLifecycle ==
    /\ [](isDragging <=> dragTarget # NoTarget)
    /\ [][ /\ (~isDragging /\ isDragging') =>
                /\ lastEvent'.type = "start"
                /\ dragTarget' # NoTarget
                /\ \E pos \in StartPositions : dragTarget' = checkHit(state, pos)
           /\ (isDragging /\ ~isDragging') => lastEvent'.type = "end"
           /\ lastEvent'.type \notin {"start", "end"} =>
                /\ isDragging' = isDragging
                /\ dragTarget' = dragTarget ]_vars

\* an error event arrived in the middle of a gesture on the left pivot: the
\* gesture goes on with its target
C16_Witness ==
    /\ lastEvent.type = "error"
    /\ toast
    /\ isDragging
    /\ dragTarget = Target("left", "leg", Pt(175000, 80000))

\* ------------------------------------------------------------------------
\* C17
\* ------------------------------------------------------------------------
\* C17: in every reachable dragging state whose target part is joint, the
\* center held in the drag target is the knee position computed from the
\* current RobotState, also after a state_update or a slider input that
\* arrives during the drag.
C17_JointCenterNeverStale ==
    (isDragging /\ dragTarget.part = "joint") =>
        dragTarget.center = getLegGeometry(state, dragTarget.side).knee

\* ------------------------------------------------------------------------
\* C18
\* ------------------------------------------------------------------------
\* C18: the reconnect counter starts at 0; a connect event resets it to 0, a
\* connect_error event adds exactly one, and every other event (disconnect,
\* state_update, error, pointer, slider, button, timer) leaves it as it was:
\* so it is the number of connect_error events since the last connect.
C18_CounterAccounting ==
    /\ reconnectAttempts = 0
    /\ [][ /\ lastEvent'.type = "connect" => reconnectAttempts' = 0
           /\ lastEvent'.type = "connect_error" =>
                 reconnectAttempts' = reconnectAttempts + 1
           /\ lastEvent'.type \notin {"connect", "connect_error"} =>
                 reconnectAttempts' = reconnectAttempts ]_vars

\* three attempts have failed since the connection was lost, and the third
\* failure is the last event
C18_Witness ==
    /\ lastEvent.type = "connect_error"
    /\ reconnectAttempts = 3
    /\ connectionStatus = "Disconnected"
    /\ transport = "reconnecting"
    /\ ~connected

\* ------------------------------------------------------------------------
\* C19
\* ------------------------------------------------------------------------
\* the last handler was one that writes RobotState
StateWritten == MoveProcessed \/ lastEvent.type \in {"slider", "state_update"}

\* C19: when a handler that writes RobotState (a processed drag move, a
\* slider input, a state_update) has completed, its last render pass was
\* given a state equal to RobotState in all four fields; for a state_update
\* that state is the payload, whole.
C19_FrameNeverStale ==
    StateWritten =>
        /\ Len(rendered) >= 1
        /\ \A k \in Keys : rendered[Len(rendered)].state[k] = state[k]
        /\ lastEvent.type = "state_update" =>
              \A k \in Keys : rendered[Len(rendered)].state[k] = PayloadTab[lastEvent.n][k]

\* a state_update arrived during a gesture and was drawn whole
C19_Witness ==
    /\ lastEvent = Event("state_update", "none", Pt(0, 0), 2)
    /\ isDragging
    /\ state = State4(120, -30, 75, -10)
    /\ Len(rendered) = 1
    /\ rendered[1].state = State4(120, -30, 75, -10)

\* ------------------------------------------------------------------------
\* C20
\* ------------------------------------------------------------------------
\* C20: every render pass draws the handle rings exactly when no drag is in
\* progress: the pass of a processed drag move never draws them, and the
\* pass of a slider input or a state_update draws them if and only if the
\* canvas is idle.
C20_RingsIffIdle ==
    /\ \A i \in 1 .. Len(rendered) : rendered[i].rings = ~isDragging
    /\ MoveProcessed => Len(rendered) = 1 /\ ~rendered[1].rings
    /\ lastEvent.type \in {"slider", "state_update"} =>
          /\ Len(rendered) = 1
          /\ rendered[1].rings <=> (~isDragging /\ dragTarget = NoTarget)

\* a slider input was drawn in the middle of a gesture, without the rings
C20_Witness ==
    /\ lastEvent.type = "slider"
    /\ isDragging
    /\ Len(rendered) = 1
    /\ ~rendered[1].rings
    /\ rendered[1].state = state

\* ------------------------------------------------------------------------
\* C21
\* ------------------------------------------------------------------------
\* C21: a slider input for one field changes only that field of RobotState:
\* when the handler completes the other three fields hold the values they
\* had immediately before the event, in every reachable state, the initial
\* state before any state_update included.
C21_SliderChangesOnlyOwnField ==
    [][ lastEvent'.type = "slider" =>
          \A k \in Keys \ {lastEvent'.key} : state'[k] = state[k] ]_vars

====
